---- MODULE Spec2Model ----
(***************************************************************************)
(* Model of the AFI tracker core: the time-indexed snapshot store of       *)
(* models.py (insert_rating, get_last_rating, get_rating_at_time over the  *)
(* clan_ratings / member_ratings tables, each call in its own              *)
(* get_db_session), the delta engine of utils.py (get_member_delta), the   *)
(* scheduled cycles of cogs/report_cog.py (hourly_report, daily_report,    *)
(* _send_report) and the slash commands of cogs/commands_cog.py.           *)
(***************************************************************************)
EXTENDS Integers, Sequences, FiniteSets, TLC

(* ---------------------------- bounds ----------------------------------- *)
MaxMembers == 2        \* longest member list handed to insert_rating
MaxSnapshots == 2      \* most snapshots the store comes to hold
MaxTxnSnapshots == 1   \* most inserts followed statement by statement
MaxClock == 2          \* last tick of the wall clock
TicksPerSecond == 2    \* clock ticks per second (microseconds, scaled down)
MaxDeltaLen == 2       \* longest list handed to get_member_delta

\* values the scraped page supplies to the store
ScrapedNames == {"amy", "bob"}
ScrapedRatings == {10}
ScrapedTotals == {100, 200}
\* values handed to get_member_delta
DeltaNames == {"amy", "bob", "cat"}
DeltaRatings == {-1, 0, 1}

Instants == 0..MaxClock
\* Optional[...] values: None is the empty tuple, a value x is <<x>>
None == <<>>
Some(x) == <<x>>
NoError == "no exception"

\* List[Tuple[str, int]]: the lists of at most n (name, rating) pairs
MemberLists(N, R, n) == UNION {[1..k -> N \X R] : k \in 0..n}

VARIABLES
  clock,            \* datetime.now(TIMEZONE), in ticks of 1/TicksPerSecond s
  clan_ratings,     \* committed rows of table clan_ratings, in rowid order
  member_ratings,   \* committed rows of table member_ratings, in rowid order
  session,          \* the session of the insert_rating call in flight
  ret,              \* what the call completed by the last step returned
  inserted,         \* arguments and stamp of every insert_rating that returned
  old_members,      \* get_member_delta: first argument
  new_members,      \* get_member_delta: second argument
  loops,            \* the task loops of ClanRatingTracker and their cycles
  command,          \* the slash command being served
  scrape            \* the call of the retrying get_ratings in progress

vars == <<clock, clan_ratings, member_ratings, session, ret, inserted,
          old_members, new_members, loops, command, scrape>>
store_vars == <<clan_ratings, member_ratings>>
delta_vars == <<old_members, new_members>>
bot_vars == <<loops, command>>

(* ------------------------- time and its storage ------------------------ *)
\* faulty variant: the stamp keeps only the sub-second field
replace_keeping_microsecond(t) == t % TicksPerSecond

\* datetime.replace(microsecond=0)
replace_microsecond_0(t) == t - (t % TicksPerSecond)

\* The DateTime column is stored as the fixed-width text
\* "YYYY-MM-DD HH:MM:SS.ffffff" of the wall-clock fields (tzinfo dropped);
\* here the two fields are the whole seconds and the sub-second ticks.
bind_datetime(t) == <<t \div TicksPerSecond, t % TicksPerSecond>>

\* reading the column back gives the (naive) datetime of those fields
result_datetime(s) == s[1] * TicksPerSecond + s[2]

\* SQLite compares the stored texts byte by byte
TextLessEq(a, b) == \/ a[1] < b[1]
                    \/ (a[1] = b[1] /\ a[2] <= b[2])

(* ------------------------------ sessions ------------------------------- *)
ClosedSession ==
  [state |-> "closed", timestamp |-> <<0, 0>>, total_rating |-> 0,
   members |-> <<>>, clan_flushed |-> FALSE, members_flushed |-> 0]

NoRet == [op |-> "none", arg |-> <<>>, value |-> None, raised |-> NoError]

\* return None, None, None
NotFound == <<None, None, None>>

\* a task loop that has not run yet; a loop's record keeps what its last
\* cycle did: when it ran, the baseline it got, how the fetch and the
\* insert went, the delta, and the messages it handed to channel.send
IdleCycle ==
  [pc |-> "idle", ran |-> None, old |-> NotFound, channel |-> "none",
   fetch |-> "none", new |-> None, insert |-> "none", delta |-> None,
   sends |-> <<>>]

\* self.hourly_report.start(); self.daily_report.start()
IdleLoops == [l \in {"hourly_report", "daily_report"} |-> IdleCycle]

\* no call of the retrying get_ratings is in progress; the record of a call
\* keeps its retries argument, the index of the loop, how each HTTP attempt
\* ended, the sleeps taken, and what the call returned or raised
IdleScrape ==
  [pc |-> "idle", retries |-> 0, attempt |-> 0, outcomes |-> <<>>,
   slept |-> 0, value |-> None, raised |-> NoError]

\* no slash command is being served; the record of a command keeps the
\* baseline it looked up, how the fetch went, the delta, and the messages
\* it handed to interaction.followup.send
IdleCommand ==
  [name |-> "none", pc |-> "idle", date |-> <<>>, time |-> <<>>,
   old |-> None, fetch |-> "none", delta |-> None, sends |-> <<>>]

\* primary key given to the next clan_ratings row
NextClanId == Len(clan_ratings) + 1

\* ClanRating(timestamp=now, total_rating=total_rating) as its INSERT row
NewClanRows(timestamp, total_rating) ==
  <<[id |-> NextClanId, timestamp |-> timestamp,
     total_rating |-> total_rating]>>

\* [MemberRating(member_name=name, rating=rating) for name, rating in
\* members]: the INSERT rows of the first n of them
NewMemberRows(members, n) ==
  [k \in 1..n |->
     [id |-> Len(member_ratings) + k, clan_rating_id |-> NextClanId,
      member_name |-> members[k][1], rating |-> members[k][2]]]

\* UniqueConstraint("clan_rating_id", "member_name"): may row join rows
uix_member_per_rating(rows, row) ==
  \A j \in 1..Len(rows) :
     ~(rows[j].clan_rating_id = row.clan_rating_id
       /\ rows[j].member_name = row.member_name)

\* the flush of all member rows passes the unique constraint
FlushSucceeds(members) ==
  LET rows == NewMemberRows(members, Len(members))
  IN \A k \in 1..Len(members) :
       uix_member_per_rating(member_ratings \o SubSeq(rows, 1, k - 1), rows[k])

\* rows the open transaction of the session has sent and not yet committed
PendingClanRows ==
  IF session.clan_flushed
    THEN NewClanRows(session.timestamp, session.total_rating)
    ELSE <<>>

PendingMemberRows == NewMemberRows(session.members, session.members_flushed)

Init ==
  /\ clock = 0
  /\ clan_ratings = <<>>
  /\ member_ratings = <<>>
  /\ session = ClosedSession
  /\ ret = NoRet
  /\ inserted = <<>>
  /\ old_members = <<>>
  /\ new_members = <<>>
  /\ loops = IdleLoops
  /\ command = IdleCommand
  /\ scrape = IdleScrape

\* the wall clock advances
Tick ==
  /\ clock < MaxClock
  /\ clock' = clock + 1
  /\ ret' = NoRet
  /\ UNCHANGED <<store_vars, session, inserted, delta_vars, scrape, bot_vars>>

\* now = datetime.now(TIMEZONE).replace(microsecond=0), as the column stores it
now_timestamp == bind_datetime(replace_microsecond_0(clock))

\* one completed call insert_rating(total_rating, members) and its stamp
Call(now, total_rating, members) ==
  [timestamp |-> now, total_rating |-> total_rating, members |-> members]

InsertReturn(total_rating, members, raised) ==
  [op |-> "insert_rating", arg |-> <<total_rating, members>>,
   value |-> None, raised |-> raised]

\* faulty variant: the store keeps only the snapshot written last
commit_rows_replacing(clan_rows, member_rows) ==
  /\ clan_ratings' = clan_rows
  /\ member_ratings' = member_rows

\* session.commit(): the rows of the transaction join the tables together
commit_rows(clan_rows, member_rows) ==
  /\ clan_ratings' = clan_ratings \o clan_rows
  /\ member_ratings' = member_ratings \o member_rows

\* faulty variant: the rows sent before the failure are committed, not discarded
rollback_rows_keeping == commit_rows(PendingClanRows, PendingMemberRows)

\* session.rollback(): the rows of the transaction are discarded
rollback_rows == UNCHANGED store_vars

\* insert_rating as one call: the with block adds the objects, and leaving
\* it commits them, or rolls back and re-raises when the flush or the commit
\* raises an SQLAlchemyError (unique constraint, or the database failing)
insert_rating(total_rating, members) ==
  /\ session.state = "closed"
  /\ Len(clan_ratings) < MaxSnapshots
  /\ \/ /\ FlushSucceeds(members)
        /\ commit_rows(NewClanRows(now_timestamp, total_rating),
                       NewMemberRows(members, Len(members)))
        /\ ret' = InsertReturn(total_rating, members, NoError)
        /\ inserted' = Append(inserted,
                              Call(replace_microsecond_0(clock),
                                   total_rating, members))
     \/ /\ ~FlushSucceeds(members)
        /\ rollback_rows
        /\ ret' = InsertReturn(total_rating, members, "SQLAlchemyError")
        /\ UNCHANGED inserted
     \/ /\ rollback_rows
        /\ ret' = InsertReturn(total_rating, members, "SQLAlchemyError")
        /\ UNCHANGED inserted
  /\ UNCHANGED <<clock, session, delta_vars, scrape, bot_vars>>

(* ------------- insert_rating, statement by statement ------------------- *)
\* lines 108-113 and the first statement of the flush that session.commit()
\* starts: now is read, the objects are added to a new session, the
\* transaction opens and the clan_ratings row is sent
insert_rating_begin(total_rating, members) ==
  /\ session.state = "closed"
  /\ Len(clan_ratings) < 1 + MaxTxnSnapshots
  /\ session' = [state |-> "flushing",
                 timestamp |-> now_timestamp,
                 total_rating |-> total_rating,
                 members |-> members,
                 clan_flushed |-> TRUE,
                 members_flushed |-> 0]
  /\ ret' = NoRet
  /\ UNCHANGED <<clock, store_vars, inserted, delta_vars, scrape, bot_vars>>

\* the flush sends the next member_ratings row; the unique constraint is
\* checked against the rows the transaction can see
flush_member_row ==
  /\ session.state = "flushing"
  /\ session.members_flushed < Len(session.members)
  /\ LET k == session.members_flushed + 1
         row == NewMemberRows(session.members, k)[k]
     IN IF uix_member_per_rating(member_ratings \o PendingMemberRows, row)
          THEN session' = [session EXCEPT !.members_flushed = k]
          ELSE session' = [session EXCEPT !.state = "failed"]
  /\ ret' = NoRet
  /\ UNCHANGED <<clock, store_vars, inserted, delta_vars, scrape, bot_vars>>

\* a statement of the flush, or the COMMIT itself, fails in the database
\* (disk, lock): an OperationalError, which is an SQLAlchemyError
flush_io_error ==
  /\ session.state = "flushing"
  /\ session' = [session EXCEPT !.state = "failed"]
  /\ ret' = NoRet
  /\ UNCHANGED <<clock, store_vars, inserted, delta_vars, scrape, bot_vars>>

\* yield session; session.commit()
session_commit ==
  /\ session.state = "flushing"
  /\ session.members_flushed = Len(session.members)
  /\ commit_rows(PendingClanRows, PendingMemberRows)
  /\ session' = ClosedSession
  /\ ret' = InsertReturn(session.total_rating, session.members, NoError)
  /\ inserted' = Append(inserted,
                        Call(result_datetime(session.timestamp),
                             session.total_rating, session.members))
  /\ UNCHANGED <<clock, delta_vars, scrape, bot_vars>>

\* except SQLAlchemyError: session.rollback(); raise
session_rollback ==
  /\ session.state = "failed"
  /\ rollback_rows
  /\ session' = ClosedSession
  /\ ret' = InsertReturn(session.total_rating, session.members,
                         "SQLAlchemyError")
  /\ UNCHANGED <<clock, inserted, delta_vars, scrape, bot_vars>>

(* ------------------------------ readers -------------------------------- *)
\* the orders in which a sequence's elements can be listed
Orders(rows) ==
  {p \in [1..Len(rows) -> 1..Len(rows)] :
     \A i, j \in 1..Len(rows) : i # j => p[i] # p[j]}

\* clan_rating.members: the lazy load SELECT ... WHERE clan_rating_id = ?
MemberRowsOf(clan_rating) ==
  LET Mine(r) == r.clan_rating_id = clan_rating.id
  IN SelectSeq(member_ratings, Mine)

\* [(m.member_name, m.rating) for m in clan_rating.members]; the SELECT has
\* no ORDER BY, so the rows come in one of their orders
members_of(clan_rating, order) ==
  LET rows == MemberRowsOf(clan_rating)
  IN [i \in 1..Len(rows) |->
        <<rows[order[i]].member_name, rows[order[i]].rating>>]

\* faulty variant: ascending order, the desc() forgotten
order_by_asc_timestamp_first(rows) ==
  {r \in rows : \A q \in rows : TextLessEq(r.timestamp, q.timestamp)}

\* .order_by(desc(ClanRating.timestamp)).limit(1) ... .first(): the rows that
\* may come first; rows with equal timestamps come in no specified order
order_by_desc_timestamp_first(rows) ==
  {r \in rows : \A q \in rows : TextLessEq(q.timestamp, r.timestamp)}

Range(f) == {f[i] : i \in DOMAIN f}

\* faulty variant: a reader also sees the rows of the open transaction
ReadableClanRatingsDirty == Range(clan_ratings \o PendingClanRows)

\* what a reader's SELECT runs against: the committed rows of clan_ratings
ReadableClanRatings == Range(clan_ratings)

\* return clan_rating.timestamp, clan_rating.total_rating, members
Returned(clan_rating, order) ==
  <<Some(result_datetime(clan_rating.timestamp)),
    Some(clan_rating.total_rating), Some(members_of(clan_rating, order))>>

\* faulty variant: the commit writes back a change made to the loaded objects
reader_commit_writing ==
  /\ clan_ratings' = [i \in DOMAIN clan_ratings |->
                        [clan_ratings[i] EXCEPT !.total_rating = 0]]
  /\ UNCHANGED member_ratings

\* leaving the with block of a reader: session.commit() of a session that
\* holds only loaded objects
reader_commit == UNCHANGED store_vars

get_last_rating ==
  /\ \/ /\ ReadableClanRatings = {}
        /\ ret' = [op |-> "get_last_rating", arg |-> <<>>,
                   value |-> NotFound, raised |-> NoError]
     \/ \E c \in order_by_desc_timestamp_first(ReadableClanRatings) :
        \E o \in Orders(MemberRowsOf(c)) :
          ret' = [op |-> "get_last_rating", arg |-> <<>>,
                  value |-> Returned(c, o), raised |-> NoError]
  /\ reader_commit
  /\ UNCHANGED <<clock, session, inserted, delta_vars, scrape, bot_vars>>

\* faulty variant: < in place of <=
filter_timestamp_strict(rows, target_time) ==
  {c \in rows : TextLessEq(c.timestamp, bind_datetime(target_time))
                /\ c.timestamp # bind_datetime(target_time)}

\* .filter(ClanRating.timestamp <= target_time)
filter_timestamp(rows, target_time) ==
  {c \in rows : TextLessEq(c.timestamp, bind_datetime(target_time))}

get_rating_at_time(target_time) ==
  LET matching == filter_timestamp(ReadableClanRatings, target_time)
  IN /\ \/ /\ matching = {}
           /\ ret' = [op |-> "get_rating_at_time", arg |-> <<target_time>>,
                      value |-> NotFound, raised |-> NoError]
        \/ \E c \in order_by_desc_timestamp_first(matching) :
           \E o \in Orders(MemberRowsOf(c)) :
             ret' = [op |-> "get_rating_at_time", arg |-> <<target_time>>,
                     value |-> Returned(c, o), raised |-> NoError]
     /\ reader_commit
     /\ UNCHANGED <<clock, session, inserted, delta_vars, scrape, bot_vars>>

ScrapedMemberLists == MemberLists(ScrapedNames, ScrapedRatings, MaxMembers)

Next ==
  \/ Tick
  \/ \E t \in ScrapedTotals : \E m \in ScrapedMemberLists : insert_rating(t, m)
  \/ get_last_rating
  \/ \E t \in Instants : get_rating_at_time(t)

Spec == Init /\ [][Next]_vars

\* the store with one insert_rating followed statement by statement while
\* readers run
TxnNext ==
  \/ Tick
  \/ \E t \in ScrapedTotals : \E m \in ScrapedMemberLists :
       insert_rating_begin(t, m)
  \/ flush_member_row
  \/ flush_io_error
  \/ session_commit
  \/ session_rollback
  \/ get_last_rating
  \/ \E t \in Instants : get_rating_at_time(t)

\* the database file already holds one snapshot, appended at tick 0
TxnInit ==
  /\ clock = 0
  /\ \E m \in {<<>>, <<<<"amy", 10>>, <<"bob", 10>>>>} :
       /\ clan_ratings = <<[id |-> 1, timestamp |-> bind_datetime(0),
                            total_rating |-> 100]>>
       /\ member_ratings =
            [k \in 1..Len(m) |->
               [id |-> k, clan_rating_id |-> 1,
                member_name |-> m[k][1], rating |-> m[k][2]]]
       /\ inserted = <<Call(0, 100, m)>>
  /\ session = ClosedSession
  /\ ret = NoRet
  /\ old_members = <<>>
  /\ new_members = <<>>
  /\ loops = IdleLoops
  /\ command = IdleCommand
  /\ scrape = IdleScrape

TxnSpec == TxnInit /\ [][TxnNext]_vars

(* --------------------------- delta engine ------------------------------ *)
\* position of key name in a dict (kept as its items in insertion order),
\* 0 when the key is missing
KeyIndex(d, name) ==
  IF \E i \in 1..Len(d) : d[i][1] = name
    THEN CHOOSE i \in 1..Len(d) : d[i][1] = name
    ELSE 0

\* dict(pairs): a key keeps the position of its first pair and the value of
\* its last
dict(pairs) ==
  LET n == Len(pairs)
      firsts == {i \in 1..n : \A j \in 1..(i - 1) : pairs[j][1] # pairs[i][1]}
      Nth(k) == CHOOSE i \in firsts : Cardinality({j \in firsts : j <= i}) = k
      Last(name) == CHOOSE i \in 1..n :
                      /\ pairs[i][1] = name
                      /\ \A j \in (i + 1)..n : pairs[j][1] # name
  IN [k \in 1..Cardinality(firsts) |->
        <<pairs[Nth(k)][1], pairs[Last(pairs[Nth(k)][1])][2]>>]

\* d.get(name): None when the key is missing
dict_get(d, name) ==
  IF KeyIndex(d, name) = 0 THEN None ELSE Some(d[KeyIndex(d, name)][2])

\* sorted(new_dict, key=lambda n: new_dict[n], reverse=True), the names with
\* their ratings: descending, and stable (equal keys keep the dict's order)
sorted_reverse(d) ==
  LET n == Len(d)
      Ahead(i) == {j \in 1..n : \/ d[j][2] > d[i][2]
                               \/ (d[j][2] = d[i][2] /\ j < i)}
  IN [k \in 1..n |-> d[CHOOSE i \in 1..n : Cardinality(Ahead(i)) = k - 1]]

\* faulty variant: the difference taken the wrong way round
member_delta_swapped(new_rating, old_rating) ==
  IF old_rating # None THEN old_rating[1] - new_rating ELSE new_rating

\* faulty variant: the old rating is not subtracted
member_delta_ignoring_old(new_rating, old_rating) == new_rating

\* faulty variant: a negative rating counts as 0
member_delta_clamped(new_rating, old_rating) ==
  LET AtLeast0(r) == IF r < 0 THEN 0 ELSE r
  IN IF old_rating # None
       THEN AtLeast0(new_rating) - AtLeast0(old_rating[1])
       ELSE AtLeast0(new_rating)

\* lines 48-52: the delta of one member of new
member_delta(new_rating, old_rating) ==
  IF old_rating # None THEN new_rating - old_rating[1] ELSE new_rating

\* lines 43-56: the loop over names, dropping the members whose delta is 0
present_entries(names, old_dict) ==
  LET Changed(entry) == entry[3] # 0
      visited == [i \in 1..Len(names) |->
                    <<names[i][1], names[i][2],
                      member_delta(names[i][2],
                                   dict_get(old_dict, names[i][1]))>>]
  IN SelectSeq(visited, Changed)

\* faulty variant: a member who left with a negative rating is not listed
leavers_positive(old_dict, new_dict) ==
  LET Left(p) == KeyIndex(new_dict, p[1]) = 0 /\ p[2] > 0
      gone == SelectSeq(old_dict, Left)
  IN [i \in 1..Len(gone) |-> <<gone[i][1], gone[i][2], -gone[i][2]>>]

\* faulty variant: the zero-change drop applied to the leavers too
leavers_dropping_zero(old_dict, new_dict) ==
  LET Left(p) == KeyIndex(new_dict, p[1]) = 0 /\ p[2] # 0
      gone == SelectSeq(old_dict, Left)
  IN [i \in 1..Len(gone) |-> <<gone[i][1], gone[i][2], -gone[i][2]>>]

\* faulty variant: the leavers re-sorted by old rating, descending
leavers_sorted(old_dict, new_dict) ==
  LET Left(p) == KeyIndex(new_dict, p[1]) = 0
      gone == sorted_reverse(SelectSeq(old_dict, Left))
  IN [i \in 1..Len(gone) |-> <<gone[i][1], gone[i][2], -gone[i][2]>>]

\* line 59: [(name, old_dict[name], -old_dict[name]) for name in old_dict
\*           if name not in new_dict]
leavers(old_dict, new_dict) ==
  LET Left(p) == KeyIndex(new_dict, p[1]) = 0
      gone == SelectSeq(old_dict, Left)
  IN [i \in 1..Len(gone) |-> <<gone[i][1], gone[i][2], -gone[i][2]>>]

\* faulty variant: only an empty old list is caught
empty_list_given_old_only(old, new) == old = <<>>

\* faulty variant: only an empty new list is caught
empty_list_given_new_only(old, new) == new = <<>>

\* if not old_members or not new_members
empty_list_given(old, new) == old = <<>> \/ new = <<>>

\* faulty variant: the leavers put ahead of the members of new
get_member_delta_leavers_first(old, new) ==
  IF empty_list_given(old, new) THEN <<>>
  ELSE LET old_dict == dict(old)
           new_dict == dict(new)
           names == sorted_reverse(new_dict)
       IN leavers(old_dict, new_dict) \o present_entries(names, old_dict)

\* faulty variant: members with equal ratings come in reverse order
get_member_delta_unstable(old, new) ==
  IF empty_list_given(old, new) THEN <<>>
  ELSE LET old_dict == dict(old)
           new_dict == dict(new)
           reversed == [i \in 1..Len(new_dict) |->
                          new_dict[Len(new_dict) + 1 - i]]
           names == sorted_reverse(reversed)
       IN present_entries(names, old_dict) \o leavers(old_dict, new_dict)

\* lines 21-64
get_member_delta(old, new) ==
  IF empty_list_given(old, new) THEN <<>>
  ELSE LET old_dict == dict(old)
           new_dict == dict(new)
           names == sorted_reverse(new_dict)
       IN present_entries(names, old_dict) \o leavers(old_dict, new_dict)

DeltaMemberLists == MemberLists(DeltaNames, DeltaRatings, MaxDeltaLen)

\* get_member_delta is about to be called with two lists
DeltaInit ==
  /\ clock = 0
  /\ clan_ratings = <<>>
  /\ member_ratings = <<>>
  /\ session = ClosedSession
  /\ ret = NoRet
  /\ inserted = <<>>
  /\ old_members \in DeltaMemberLists
  /\ new_members \in DeltaMemberLists
  /\ loops = IdleLoops
  /\ command = IdleCommand
  /\ scrape = IdleScrape

call_get_member_delta ==
  /\ ret.op = "none"
  /\ ret' = [op |-> "get_member_delta", arg |-> <<old_members, new_members>>,
             value |-> get_member_delta(old_members, new_members),
             raised |-> NoError]
  /\ UNCHANGED <<clock, store_vars, session, inserted, delta_vars, scrape, bot_vars>>

DeltaNext == call_get_member_delta

DeltaSpec == DeltaInit /\ [][DeltaNext]_vars

(* ------------------------- the bot's wall clock ------------------------ *)
MaxBotSnapshots == 3   \* most snapshots the scheduled cycles come to store

\* the bot's clock counts the same ticks from 00:00 of 1 January of the
\* running year, in TIMEZONE
MinuteTicks == 60 * TicksPerSecond
HourTicks == 60 * MinuteTicks
DayTicks == 24 * HourTicks

\* now.hour
hour_of(now) == (now % DayTicks) \div HourTicks

\* now.year
year_of(now) == 2025 + now \div (365 * DayTicks)

\* datetime(year, month, day, hour, minute, tzinfo=TIMEZONE) of a day of
\* that January
datetime_of(day, hour, minute) ==
  (day - 1) * DayTicks + hour * HourTicks + minute * MinuteTicks

\* day_start: (hour, minute)
day_start == <<17, 0>>

\* now.replace(hour=day_start[0] + 1, minute=day_start[1], second=0,
\* microsecond=0), a day earlier when now.hour < 2
start_of_day(now) ==
  LET replaced == now - (now % DayTicks) + (day_start[1] + 1) * HourTicks
                    + day_start[2] * MinuteTicks
  IN IF hour_of(now) < 2 THEN replaced - DayTicks ELSE replaced

\* time(hour=x // 60, minute=x % 60) for x in range(0, 24 * 60, 30)
regular_report_times(now) == (now % DayTicks) % (30 * MinuteTicks) = 0

\* time(hour=1, minute=5)
end_of_day_report_time(now) == now % DayTicks = 1 * HourTicks + 5 * MinuteTicks

\* time(hour=AFI_END_OF_DAY_HOUR, minute=AFI_END_OF_DAY_MINUTE) when the
\* environment sets them
end_of_day_report_time_set(now, hour, minute) ==
  now % DayTicks = hour * HourTicks + minute * MinuteTicks

\* the instants at which the model looks at the bot
BotInstants ==
  {datetime_of(1, 18, 0), datetime_of(2, 1, 0), datetime_of(2, 1, 5),
   datetime_of(2, 1, 30), datetime_of(2, 10, 0)}

\* time passes between two steps of the bot
Advance ==
  /\ \E t \in BotInstants : t > clock /\ clock' = t
  /\ UNCHANGED <<store_vars, session, ret, inserted, delta_vars, scrape, bot_vars>>

(* ------------------------------ scraping ------------------------------- *)
\* what the clan page shows: the squadron counter and the member rows in
\* the order of the page
ClanPages ==
  {[total |-> 100, rows |-> <<<<"amy", 10>>, <<"bob", 20>>>>],
   [total |-> 110, rows |-> <<<<"amy", 10>>, <<"bob", 30>>>>]}

\* get_ratings: the total and the rows sorted by rating, descending
get_ratings(page) == <<page.total, sorted_reverse(page.rows)>>

(* ------------------------- store calls, as values ---------------------- *)
\* what get_last_rating() may return
get_last_rating_results ==
  IF ReadableClanRatings = {} THEN {NotFound}
  ELSE UNION {{Returned(c, o) : o \in Orders(MemberRowsOf(c))} :
                c \in order_by_desc_timestamp_first(ReadableClanRatings)}

\* what get_rating_at_time(target_time) may return
get_rating_at_time_results(target_time) ==
  LET matching == filter_timestamp(ReadableClanRatings, target_time)
  IN IF matching = {} THEN {NotFound}
     ELSE UNION {{Returned(c, o) : o \in Orders(MemberRowsOf(c))} :
                   c \in order_by_desc_timestamp_first(matching)}

\* faulty variant: the call returns without error and without committing
insert_rating_outcome_dropping(total_rating, members, raised) ==
  /\ raised \in {NoError, "SQLAlchemyError"}
  /\ rollback_rows
  /\ UNCHANGED inserted

\* faulty variant: the snapshot row is written twice
insert_rating_outcome_twice(total_rating, members, raised) ==
  \/ /\ raised = NoError
     /\ FlushSucceeds(members)
     /\ commit_rows(NewClanRows(now_timestamp, total_rating)
                      \o <<[id |-> NextClanId + 1, timestamp |-> now_timestamp,
                            total_rating |-> total_rating]>>,
                    NewMemberRows(members, Len(members)))
     /\ inserted' = Append(inserted,
                           Call(replace_microsecond_0(clock),
                                total_rating, members))
  \/ /\ raised = "SQLAlchemyError"
     /\ rollback_rows
     /\ UNCHANGED inserted

\* faulty variant: the snapshot row of a failed call stays in the table
insert_rating_outcome_leaving_row(total_rating, members, raised) ==
  \/ /\ raised = NoError
     /\ FlushSucceeds(members)
     /\ commit_rows(NewClanRows(now_timestamp, total_rating),
                    NewMemberRows(members, Len(members)))
     /\ inserted' = Append(inserted,
                           Call(replace_microsecond_0(clock),
                                total_rating, members))
  \/ /\ raised = "SQLAlchemyError"
     /\ commit_rows(NewClanRows(now_timestamp, total_rating), <<>>)
     /\ UNCHANGED inserted

\* insert_rating(total_rating, members) inside a handler: it commits and
\* returns, or rolls back and raises (unique constraint, database failing)
insert_rating_outcome(total_rating, members, raised) ==
  \/ /\ raised = NoError
     /\ FlushSucceeds(members)
     /\ commit_rows(NewClanRows(now_timestamp, total_rating),
                    NewMemberRows(members, Len(members)))
     /\ inserted' = Append(inserted,
                           Call(replace_microsecond_0(clock),
                                total_rating, members))
  \/ /\ raised = "SQLAlchemyError"
     /\ rollback_rows
     /\ UNCHANGED inserted

(* --------------------------- scheduled cycles -------------------------- *)
\* faulty variant: a missing baseline is not noticed
no_old_data_never(old) == FALSE

\* old_total is None or old_members is None or old_time is None
no_old_data(old) == old[1] = None \/ old[2] = None \/ old[3] = None

\* an Optional list as `not x` and dict(x) take it
list_or_empty(x) == IF x = None THEN <<>> ELSE x[1]

\* the coroutine waits in await channel.send(message)
Sending(c, message) ==
  [c EXCEPT !.pc = "sending", !.sends = Append(c.sends, message)]

\* faulty variant: without a channel the cycle still fetches and stores
fetch_without_channel(l, c) ==
  \E page \in ClanPages :
     LET new == get_ratings(page)
     IN /\ insert_rating_outcome(new[1], new[2], NoError)
        /\ loops' = [loops EXCEPT
                       ![l] = [c EXCEPT !.channel = "missing",
                                        !.fetch = "ok", !.new = Some(new),
                                        !.insert = "ok"]]

\* lines 62-65: get_channel(CHANNEL_ID) is None, the cycle logs and returns
return_without_channel(l, c) ==
  /\ loops' = [loops EXCEPT ![l] = [c EXCEPT !.channel = "missing"]]
  /\ UNCHANGED <<store_vars, inserted>>

\* _send_report(old_time, old_total, old_members, silence) up to its first
\* await or its return; none of get_channel, get_ratings, insert_rating,
\* get_member_delta and generate_report yields to the event loop
send_report(l, old, silence) ==
  LET started == [IdleCycle EXCEPT !.ran = Some(clock), !.old = old]
      c == [started EXCEPT !.channel = "found"]
  IN \/ return_without_channel(l, started)
     \/ \* get_ratings raises: the outer except sends its message
        /\ loops' = [loops EXCEPT
                       ![l] = Sending([c EXCEPT !.fetch = "raised"],
                                      "rating_error")]
        /\ UNCHANGED <<store_vars, inserted>>
     \/ \E page \in ClanPages :
          LET new == get_ratings(page)
              f == [c EXCEPT !.fetch = "ok", !.new = Some(new)]
              s == [f EXCEPT !.insert = "ok"]
              delta == get_member_delta(list_or_empty(old[3]), new[2])
              d == [s EXCEPT !.delta = Some(delta)]
          IN \/ /\ insert_rating_outcome(new[1], new[2], "SQLAlchemyError")
                /\ loops' = [loops EXCEPT
                               ![l] = Sending([f EXCEPT !.insert = "raised"],
                                              "store_error")]
             \/ /\ insert_rating_outcome(new[1], new[2], NoError)
                /\ loops' = [loops EXCEPT
                               ![l] = IF no_old_data(old)
                                        THEN Sending(s, "clean_start")
                                      ELSE IF delta = <<>> \/ silence THEN d
                                      ELSE Sending(d, "report")]

\* one run of the hourly_report loop, at one of regular_report_times
hourly_report ==
  /\ loops["hourly_report"].pc = "idle"
  /\ regular_report_times(clock)
  /\ loops["hourly_report"].ran # Some(clock)
  /\ Len(clan_ratings) < MaxBotSnapshots
  /\ \E old \in get_last_rating_results :
       send_report("hourly_report", old, TRUE)
  /\ UNCHANGED <<clock, session, ret, delta_vars, scrape, command>>

\* one run of the daily_report loop, at end_of_day_report_time
daily_report ==
  /\ loops["daily_report"].pc = "idle"
  /\ end_of_day_report_time(clock)
  /\ loops["daily_report"].ran # Some(clock)
  /\ Len(clan_ratings) < MaxBotSnapshots
  /\ \E old \in get_rating_at_time_results(start_of_day(clock)) :
       send_report("daily_report", old, FALSE)
  /\ UNCHANGED <<clock, session, ret, delta_vars, scrape, command>>

\* faulty variant: a failure of the error message's send ends the loop
channel_send_stopping(l) ==
  /\ loops[l].pc = "sending"
  /\ LET c == loops[l]
         message == c.sends[Len(c.sends)]
         returned == [c EXCEPT !.pc = "idle"]
     IN \/ loops' = [loops EXCEPT ![l] = returned]
        \/ loops' = [loops EXCEPT
                       ![l] = IF message = "report"
                                THEN Sending(c, "report_error")
                              ELSE IF message = "rating_error"
                                THEN [c EXCEPT !.pc = "stopped"]
                              ELSE Sending(c, "rating_error")]
  /\ UNCHANGED <<clock, store_vars, session, ret, inserted, delta_vars, scrape,
                 command>>

\* one run of the daily_report loop of a bot whose environment sets the
\* end-of-day time
daily_report_set(hour, minute) ==
  /\ loops["daily_report"].pc = "idle"
  /\ end_of_day_report_time_set(clock, hour, minute)
  /\ loops["daily_report"].ran # Some(clock)
  /\ Len(clan_ratings) < MaxBotSnapshots
  /\ \E old \in get_rating_at_time_results(start_of_day(clock)) :
       send_report("daily_report", old, FALSE)
  /\ UNCHANGED <<clock, session, ret, delta_vars, scrape, command>>

\* await channel.send(...) of a cycle completes: the message is delivered
\* and the cycle returns, or send raises and the enclosing except sends its
\* own message (the outer one propagates to the loop body, which logs)
channel_send(l) ==
  /\ loops[l].pc = "sending"
  /\ LET c == loops[l]
         message == c.sends[Len(c.sends)]
         returned == [c EXCEPT !.pc = "idle"]
     IN \/ loops' = [loops EXCEPT ![l] = returned]
        \/ loops' = [loops EXCEPT
                       ![l] = IF message = "report"
                                THEN Sending(c, "report_error")
                              ELSE IF message = "rating_error"
                                THEN returned
                              ELSE Sending(c, "rating_error")]
  /\ UNCHANGED <<clock, store_vars, session, ret, inserted, delta_vars, scrape,
                 command>>

(* ----------------------------- slash commands -------------------------- *)
\* compare_date and compare_time as their fields between the separators
CompareDates == {<<1, 1>>, <<3, 1>>, <<1, 1, 2025>>, <<32, 1>>}
CompareTimes == {<<2, 0>>, <<19, 0>>}

\* day, month, year = map(int, compare_date.split('.')); hour, minute =
\* map(int, compare_time.split(':')); datetime(year, month, day, hour,
\* minute, tzinfo=TIMEZONE): None stands for the ValueError. The dates handed
\* in lie in January of the running year or are not dates.
target_datetime(date, time, now) ==
  IF Len(date) # 3 \/ Len(time) # 2 THEN None
  ELSE IF /\ date[3] = year_of(now)
          /\ date[2] = 1
          /\ date[1] \in 1..31
          /\ time[1] \in 0..23
          /\ time[2] \in 0..59
         THEN Some(datetime_of(date[1], time[1], time[2]))
         ELSE None

\* the coroutine waits in await interaction.followup.send(message)
Replying(k, message) ==
  [k EXCEPT !.pc = "sending", !.sends = Append(k.sends, message)]

\* faulty variant: the fetched rating is stored
fetch_storing ==
  /\ commit_rows(NewClanRows(now_timestamp, 100), <<>>)
  /\ UNCHANGED inserted

\* "Fetch current ratings without storing them": the commands call no
\* insert_rating
fetch_without_storing == UNCHANGED <<store_vars, inserted>>

\* faulty variant: the missing baseline is not noticed
no_baseline_never(old) == FALSE

\* old_total is None or old_members is None or old_timestamp is None
no_baseline(old) == old[1] = None \/ old[2] = None \/ old[3] = None

\* faulty variant: the report is sent whatever the delta
compare_with_always_report(k, old) ==
  LET b == [k EXCEPT !.old = Some(old), !.date = <<>>, !.time = <<>>]
  IN IF no_baseline(old) THEN {Replying(b, "no_data")}
     ELSE {Replying([b EXCEPT !.fetch = "raised"], "error")}
          \cup
          {LET new == get_ratings(page)
               delta == get_member_delta(list_or_empty(old[3]), new[2])
               c == [b EXCEPT !.fetch = "ok", !.delta = Some(delta)]
           IN Replying(c, "report") : page \in ClanPages}

\* the body both commands share from the baseline on, up to the await of
\* the reply: the states the command may come to
compare_with(k, old) ==
  LET b == [k EXCEPT !.old = Some(old), !.date = <<>>, !.time = <<>>]
  IN IF no_baseline(old) THEN {Replying(b, "no_data")}
     ELSE {Replying([b EXCEPT !.fetch = "raised"], "error")}
          \cup
          {LET new == get_ratings(page)
               delta == get_member_delta(list_or_empty(old[3]), new[2])
               c == [b EXCEPT !.fetch = "ok", !.delta = Some(delta)]
           IN IF delta = <<>> THEN Replying(c, "no_changes")
              ELSE Replying(c, "report") : page \in ClanPages}

\* /сегодня is invoked: await interaction.response.defer()
today_command ==
  /\ command.pc = "idle"
  /\ command' = [IdleCommand EXCEPT !.name = "today_command",
                                    !.pc = "deferring"]
  /\ UNCHANGED <<clock, store_vars, session, ret, inserted, delta_vars, scrape, loops>>

\* today_command from the return of defer() to the await of its reply
today_command_deferred ==
  /\ command.pc = "deferring"
  /\ command.name = "today_command"
  /\ \/ command' = Replying(command, "error")
     \/ \E old \in get_rating_at_time_results(start_of_day(clock)) :
          command' \in compare_with(command, old)
  /\ fetch_without_storing
  /\ UNCHANGED <<clock, session, ret, delta_vars, scrape, loops>>

\* /сравнить is invoked: the year is appended to a date with fewer than
\* three dots, then await interaction.response.defer()
compare_command(compare_date, compare_time) ==
  /\ command.pc = "idle"
  /\ command' = [IdleCommand EXCEPT
                   !.name = "compare_command",
                   !.pc = "deferring",
                   !.date = IF Len(compare_date) - 1 < 3
                              THEN Append(compare_date, year_of(clock))
                              ELSE compare_date,
                   !.time = compare_time]
  /\ UNCHANGED <<clock, store_vars, session, ret, inserted, delta_vars, scrape, loops>>

\* compare_command from the return of defer() to the await of its reply
compare_command_deferred ==
  /\ command.pc = "deferring"
  /\ command.name = "compare_command"
  /\ LET k == [command EXCEPT !.date = <<>>, !.time = <<>>]
         target == target_datetime(command.date, command.time, clock)
     IN \/ command' = Replying(k, "error")
        \/ /\ target = None
           /\ command' = Replying(k, "invalid_format")
        \/ /\ target # None
           /\ IF target[1] > clock
                THEN command' = Replying(k, "future_date")
                ELSE \E old \in get_rating_at_time_results(target[1]) :
                       command' \in compare_with(k, old)
  /\ fetch_without_storing
  /\ UNCHANGED <<clock, session, ret, delta_vars, scrape, loops>>

\* await interaction.followup.send(...) completes: the reply is delivered,
\* or send raises and the enclosing except sends its own message (the outer
\* one propagates out of the command)
followup_send ==
  /\ command.pc = "sending"
  /\ LET message == command.sends[Len(command.sends)]
         returned == [command EXCEPT !.pc = "idle"]
     IN \/ command' = returned
        \/ command' = IF message = "report"
                        THEN Replying(command, "report_error")
                      ELSE IF message = "error" THEN returned
                      ELSE Replying(command, "error")
  /\ UNCHANGED <<clock, store_vars, session, ret, inserted, delta_vars, scrape, loops>>

\* the bot starts on an empty database
BotInit ==
  /\ clock = datetime_of(1, 18, 0)
  /\ clan_ratings = <<>>
  /\ member_ratings = <<>>
  /\ session = ClosedSession
  /\ ret = NoRet
  /\ inserted = <<>>
  /\ old_members = <<>>
  /\ new_members = <<>>
  /\ loops = IdleLoops
  /\ command = IdleCommand
  /\ scrape = IdleScrape

\* the two task loops and their cycles
CycleNext ==
  \/ Advance
  \/ hourly_report
  \/ daily_report
  \/ \E l \in DOMAIN loops : channel_send(l)

CycleSpec == BotInit /\ [][CycleNext]_vars

\* the event loop resumes a cycle whose awaited send has completed
CycleFairSpec ==
  /\ CycleSpec
  /\ WF_vars(channel_send("hourly_report"))
  /\ WF_vars(channel_send("daily_report"))

\* the slash commands, served while the hourly loop fills the store
CommandNext ==
  \/ Advance
  \/ hourly_report
  \/ channel_send("hourly_report")
  \/ today_command
  \/ today_command_deferred
  \/ \E d \in CompareDates : \E t \in CompareTimes : compare_command(d, t)
  \/ compare_command_deferred
  \/ followup_send

CommandSpec == BotInit /\ [][CommandNext]_vars

(* ------------------- the retrying scraper (afi_tracker) ---------------- *)
MaxRetriesArg == 4     \* largest retries argument handed to get_ratings
MAX_RETRIES == 3
RETRY_DELAY == 5

\* the retries arguments tried: the default, its neighbours, 0 and -1
RetriesValues == (-1..MaxRetriesArg) \cup {MAX_RETRIES}

\* an element of the page: its text and what int(text.strip()) makes of it
\* (None stands for the ValueError)
Cell(text, int) == [text |-> text, int |-> int]
Number(text, n) == Cell(text, Some(n))
Text(text) == Cell(text, None)

\* the header cells of the members grid, and the cells of one member's row
GridHeader ==
  <<Text("num"), Text("Player"), Text("Personal clan rating"),
    Text("Activity"), Text("Role"), Text("Date of entry")>>
GridRow(name, rating) ==
  <<Number("1", 1), Text(name), rating, Number("360", 360),
    Text("Private"), Text("01.01.2025")>>

\* response.text: the div.squadrons-counter__value elements and the
\* div.squadrons-members__grid-item elements of the page
HtmlPages ==
  {[counter |-> <<Number("100", 100)>>,
    grid |-> GridHeader \o GridRow("amy", Number("10", 10))
               \o GridRow("bob", Number("20", 20))],
   [counter |-> <<Number("110", 110)>>,
    grid |-> GridHeader \o GridRow("bob", Number("30", 30))
               \o GridRow("amy", Number("30", 30))],
   [counter |-> <<Number("0", 0)>>, grid |-> GridHeader \o <<Text("1")>>],
   [counter |-> <<>>, grid |-> GridHeader \o GridRow("amy", Number("10", 10))],
   [counter |-> <<Text("n/a")>>,
    grid |-> GridHeader \o GridRow("amy", Number("10", 10))],
   [counter |-> <<Number("100", 100)>>, grid |-> GridHeader],
   [counter |-> <<Number("100", 100)>>,
    grid |-> GridHeader \o GridRow("amy", Text("-"))],
   [counter |-> <<Number("100", 100)>>,
    grid |-> GridHeader \o GridRow("amy", Number("10", 10))
               \o <<Number("2", 2), Text("bob")>>]}

\* members[start::6], as the 1-based positions of a grid of n elements
Slice(start, n) == {i \in 1..n : i > start /\ (i - start - 1) % 6 = 0}

\* the elements of a sequence at a set of positions, in order
RECURSIVE Pick(_, _)
Pick(seq, positions) ==
  IF positions = {} THEN <<>>
  ELSE LET last == CHOOSE i \in positions : \A j \in positions : j <= i
       IN Append(Pick(seq, positions \ {last}), seq[last])

\* _parse_ratings(html_content): (total_rating, members) with the members
\* sorted by rating, descending; None stands for the ScraperError raised
\* when the counter is missing or no number, the grid has fewer than 7
\* elements, a rating is no number, or names and ratings differ in number
parse_ratings(page) ==
  LET names == Pick(page.grid, Slice(7, Len(page.grid)))
      ratings == Pick(page.grid, Slice(8, Len(page.grid)))
  IN IF page.counter = <<>> THEN None
     ELSE IF page.counter[1].int = None THEN None
     ELSE IF Len(page.grid) < 7 THEN None
     ELSE IF \E i \in 1..Len(ratings) : ratings[i].int = None THEN None
     ELSE IF Len(names) # Len(ratings) THEN None
     ELSE Some(<<page.counter[1].int[1],
                 sorted_reverse([i \in 1..Len(names) |->
                                   <<names[i].text, ratings[i].int[1]>>])>>)

\* how one pass of the try block can end: requests.get raising (timeout,
\* connection), raise_for_status raising (4XX/5XX), both RequestExceptions;
\* an exception of another kind; or a page handed to _parse_ratings
RequestFailures == {"get raised", "status raised"}

Finished(call, outcome) ==
  [call EXCEPT !.outcomes = Append(call.outcomes, outcome)]

\* faulty variant: a sleep also follows the last attempt
retry_follows_always(attempt, retries) == attempt < retries

\* if attempt < retries - 1
retry_follows(attempt, retries) == attempt < retries - 1

\* get_ratings(clan_name, retries) is called
call_get_ratings(retries) ==
  /\ scrape.pc \in {"idle", "returned", "raised"}
  /\ scrape' = [IdleScrape EXCEPT !.pc = "loop", !.retries = retries]
  /\ UNCHANGED <<clock, store_vars, session, ret, inserted, delta_vars,
                 bot_vars>>

\* one pass of the body of `for attempt in range(retries)`
get_ratings_attempt ==
  /\ scrape.pc = "loop"
  /\ scrape.attempt < scrape.retries
  /\ \/ \E failure \in RequestFailures :
          scrape' = IF retry_follows(scrape.attempt, scrape.retries)
                      THEN [Finished(scrape, failure) EXCEPT !.pc = "sleeping"]
                      ELSE [Finished(scrape, failure) EXCEPT
                              !.pc = "raised", !.raised = "ScraperError"]
     \/ scrape' = [Finished(scrape, "unexpected") EXCEPT
                     !.pc = "raised", !.raised = "ScraperError"]
     \/ \E page \in HtmlPages :
          scrape' = IF parse_ratings(page) # None
                      THEN [Finished(scrape, "parsed") EXCEPT
                              !.pc = "returned",
                              !.value = parse_ratings(page)]
                      ELSE [Finished(scrape, "parse raised") EXCEPT
                              !.pc = "raised", !.raised = "ScraperError"]
  /\ UNCHANGED <<clock, store_vars, session, ret, inserted, delta_vars,
                 bot_vars>>

\* time.sleep(RETRY_DELAY) returns and the loop goes on
retry_sleep ==
  /\ scrape.pc = "sleeping"
  /\ scrape' = [scrape EXCEPT !.pc = "loop", !.attempt = scrape.attempt + 1,
                              !.slept = scrape.slept + RETRY_DELAY]
  /\ UNCHANGED <<clock, store_vars, session, ret, inserted, delta_vars,
                 bot_vars>>

\* range(retries) is exhausted: return None
get_ratings_exhausted ==
  /\ scrape.pc = "loop"
  /\ scrape.attempt >= scrape.retries
  /\ scrape' = [scrape EXCEPT !.pc = "returned", !.value = None]
  /\ UNCHANGED <<clock, store_vars, session, ret, inserted, delta_vars,
                 bot_vars>>

ScraperNext ==
  \/ \E retries \in RetriesValues : call_get_ratings(retries)
  \/ get_ratings_attempt
  \/ retry_sleep
  \/ get_ratings_exhausted

ScraperSpec == Init /\ [][ScraperNext]_vars

\* the HTTP request has a timeout and the sleep ends: a call in progress
\* goes on
ScraperFairSpec ==
  ScraperSpec /\ WF_vars(get_ratings_attempt) /\ WF_vars(retry_sleep)
              /\ WF_vars(get_ratings_exhausted)

\* the bot is restarted at 01:05 on the store that a run of hourly_report
\* left at 18:00 of the day before
ReportingInit ==
  LET stamp == datetime_of(1, 18, 0)
      new == get_ratings(CHOOSE page \in ClanPages : page.total = 100)
  IN /\ clock = datetime_of(2, 1, 5)
     /\ clan_ratings = <<[id |-> 1, timestamp |-> bind_datetime(stamp),
                          total_rating |-> new[1]]>>
     /\ member_ratings = [k \in 1..Len(new[2]) |->
                            [id |-> k, clan_rating_id |-> 1,
                             member_name |-> new[2][k][1],
                             rating |-> new[2][k][2]]]
     /\ session = ClosedSession
     /\ ret = NoRet
     /\ inserted = <<Call(stamp, new[1], new[2])>>
     /\ old_members = <<>>
     /\ new_members = <<>>
     /\ loops = IdleLoops
     /\ command = IdleCommand
     /\ scrape = IdleScrape

\* both loops and both commands on one event loop
ReportingNext ==
  \/ Advance
  \/ hourly_report
  \/ daily_report
  \/ \E l \in DOMAIN loops : channel_send(l)
  \/ today_command
  \/ today_command_deferred
  \/ compare_command(<<1, 1>>, <<19, 0>>)
  \/ compare_command_deferred
  \/ followup_send

ReportingSpec == ReportingInit /\ [][ReportingNext]_vars

\* a bot with AFI_END_OF_DAY_MINUTE=0 is started at 01:00 on a new database:
\* its daily tick falls on an hourly tick
SameTickInit ==
  /\ clock = datetime_of(2, 1, 0)
  /\ clan_ratings = <<>>
  /\ member_ratings = <<>>
  /\ session = ClosedSession
  /\ ret = NoRet
  /\ inserted = <<>>
  /\ old_members = <<>>
  /\ new_members = <<>>
  /\ loops = IdleLoops
  /\ command = IdleCommand
  /\ scrape = IdleScrape

SameTickNext ==
  \/ Advance
  \/ hourly_report
  \/ daily_report_set(1, 0)
  \/ \E l \in DOMAIN loops : channel_send(l)

SameTickSpec == SameTickInit /\ [][SameTickNext]_vars

(* --------------------------- report formatter -------------------------- *)
MAX_REPORT_ENTRIES == 50
MaxReportMembers == 52   \* longest member list handed to generate_report

\* lst[:n]
Prefix(lst, n) == SubSeq(lst, 1, IF Len(lst) < n THEN Len(lst) ELSE n)

\* one line of the third column: +diff in green, diff in red, or plain 0
diff_line(diff) ==
  IF diff > 0 THEN <<"green", "+", diff>>
  ELSE IF diff < 0 THEN <<"red", "", diff>>
  ELSE <<"plain", "", diff>>

\* faulty variant: the report keeps the last 50 entries
shown_entries_tail(entries) ==
  SubSeq(entries,
         IF Len(entries) < MAX_REPORT_ENTRIES THEN 1
         ELSE Len(entries) - MAX_REPORT_ENTRIES + 1,
         Len(entries))

\* the entries generate_report shows: get_member_delta(...)[:50]
shown_entries(entries) == Prefix(entries, MAX_REPORT_ENTRIES)

\* generate_report(old_time, old_total, old_members, new_total,
\* new_members): the embed by its description values and the lines of its
\* three columns; None stands for the ValueError on an empty list
generate_report(old_total, old, new_total, new) ==
  IF old = <<>> \/ new = <<>> THEN None
  ELSE LET entries == shown_entries(get_member_delta(old, new))
           rows == DOMAIN entries
       IN Some([gained |-> new_total - old_total,
                total |-> new_total,
                member_20_rating |->
                  IF Len(new) >= 20 THEN Some(new[20][2]) ELSE None,
                no_changes |-> entries = <<>>,
                names |-> [i \in rows |-> entries[i][1]],
                ratings |-> [i \in rows |-> entries[i][2]],
                diffs |-> [i \in rows |-> diff_line(entries[i][3])]])

\* a clan of n members named by their numbers from first on, the i-th
\* rated base - i (so each list is sorted as get_ratings returns it)
Clan(first, n, base) ==
  [i \in 1..n |-> <<ToString(first + i - 1), base - i>>]

ReportSizes == {1} \cup ((MaxReportMembers - 2)..MaxReportMembers)

\* generate_report is about to be called with two clans that overlap
ReportInit ==
  /\ clock = 0
  /\ clan_ratings = <<>>
  /\ member_ratings = <<>>
  /\ session = ClosedSession
  /\ ret = NoRet
  /\ inserted = <<>>
  /\ \E n \in ReportSizes \cup {0} : \E base \in {100, 101} :
       old_members = Clan(1, n, base)
  /\ \E first \in 1..3 : \E n \in ReportSizes :
       new_members = Clan(first, n, 100)
  /\ loops = IdleLoops
  /\ command = IdleCommand
  /\ scrape = IdleScrape

call_generate_report ==
  /\ ret.op = "none"
  /\ \E old_total \in ScrapedTotals : \E new_total \in ScrapedTotals :
       ret' = [op |-> "generate_report",
               arg |-> <<old_total, old_members, new_total, new_members>>,
               value |-> generate_report(old_total, old_members,
                                         new_total, new_members),
               raised |-> IF old_members = <<>> \/ new_members = <<>>
                            THEN "ValueError" ELSE NoError]
  /\ UNCHANGED <<clock, store_vars, session, inserted, delta_vars, scrape,
                 bot_vars>>

ReportNext == call_generate_report

ReportSpec == ReportInit /\ [][ReportNext]_vars

(* ============================ properties ============================== *)
Readers == {"get_last_rating", "get_rating_at_time"}

\* the instant a stored row carries
Instant(c) == result_datetime(c.timestamp)

\* the member rows of a stored snapshot as (name, rating) pairs, in rowid order
StoredMembers(c) ==
  LET rows == MemberRowsOf(c)
  IN [i \in 1..Len(rows) |-> <<rows[i].member_name, rows[i].rating>>]

\* two lists hold the same pairs, in any order
SameMembers(a, b) ==
  /\ Len(a) = Len(b)
  /\ \E o \in Orders(a) : b = [i \in 1..Len(a) |-> a[o[i]]]

\* the tuple v a reader returned is the stored snapshot c
Returns(v, c) ==
  /\ v[1] = Some(Instant(c))
  /\ v[2] = Some(c.total_rating)
  /\ v[3] # None
  /\ SameMembers(v[3][1], StoredMembers(c))

\* the tuple v a reader returned is the snapshot the call h appended, whole
ReturnsCall(v, h) ==
  /\ v[1] = Some(h.timestamp)
  /\ v[2] = Some(h.total_rating)
  /\ v[3] # None
  /\ SameMembers(v[3][1], h.members)

HasDuplicateName(members) ==
  \E i, j \in 1..Len(members) : i < j /\ members[i][1] = members[j][1]

\* the tables hold the snapshots of the calls of history, each whole, in
\* order, and nothing else
StoreHoldsExactly(history) ==
  /\ Len(clan_ratings) = Len(history)
  /\ \A i \in 1..Len(history) :
       /\ clan_ratings[i].id = i
       /\ Instant(clan_ratings[i]) = history[i].timestamp
       /\ clan_ratings[i].total_rating = history[i].total_rating
       /\ StoredMembers(clan_ratings[i]) = history[i].members
  /\ \A k \in 1..Len(member_ratings) :
       member_ratings[k].clan_rating_id \in 1..Len(history)

\* C1: get_rating_at_time(t) returns a stored snapshot whose timestamp is the
\* greatest stored timestamp <= t, and (None, None, None) exactly when no
\* stored timestamp is <= t.
C1_AtOrBefore ==
  ret.op = "get_rating_at_time" =>
    LET t == ret.arg[1]
        eligible == {c \in Range(clan_ratings) : Instant(c) <= t}
    IN IF eligible = {} THEN ret.value = NotFound
       ELSE \E c \in eligible :
              /\ \A q \in eligible : Instant(q) <= Instant(c)
              /\ Returns(ret.value, c)

\* t equals a stored timestamp, an earlier snapshot exists, and the snapshot
\* stamped t is the one returned
C1_Witness ==
  /\ ret.op = "get_rating_at_time"
  /\ \E c, q \in Range(clan_ratings) :
       /\ Instant(c) = ret.arg[1]
       /\ Instant(q) < Instant(c)
       /\ Returns(ret.value, c)

C3_Latest ==
  ret.op = "get_last_rating" =>
    /\ (ret.value = NotFound) <=> (clan_ratings = <<>>)
    /\ clan_ratings # <<>> =>
         \E c \in Range(clan_ratings) :
            /\ \A q \in Range(clan_ratings) : Instant(q) <= Instant(c)
            /\ Returns(ret.value, c)

\* two snapshots with different timestamps are stored and the later is returned
C3_Witness ==
  /\ ret.op = "get_last_rating"
  /\ \E c, q \in Range(clan_ratings) :
       Instant(q) < Instant(c) /\ Returns(ret.value, c)

\* what a reader may return on the snapshots of the calls of history
ReadOf(history, op, arg, v) ==
  LET eligible == {i \in 1..Len(history) :
                     op = "get_rating_at_time" => history[i].timestamp <= arg[1]}
  IN IF eligible = {} THEN v = NotFound
     ELSE \E i \in eligible :
            /\ \A j \in eligible : history[j].timestamp <= history[i].timestamp
            /\ ReturnsCall(v, history[i])

\* C4: whatever statement an insert_rating in flight has reached, a reader
\* returns what it would return on the snapshots of the insert_rating calls
\* that have returned: the store without the new snapshot until the commit,
\* with the whole of it afterwards, never a snapshot with part of its rows.
C4_NoPartialSnapshot ==
  ret.op \in Readers => ReadOf(inserted, ret.op, ret.arg, ret.value)

\* a reader ran while the transaction had sent the snapshot row and a member
\* row, and returned the snapshot stored before
C4_Witness ==
  /\ ret.op \in Readers
  /\ session.state = "flushing"
  /\ session.members_flushed >= 1
  /\ ret.value # NotFound

\* C5: insert_rating with a member name given twice raises and leaves the
\* tables as they were; no stored snapshot holds a member name twice.
C5_DuplicateRejected ==
  /\ \A i, j \in 1..Len(member_ratings) :
       (i < j /\ member_ratings[i].clan_rating_id = member_ratings[j].clan_rating_id)
          => member_ratings[i].member_name # member_ratings[j].member_name
  /\ (session.state # "closed" /\ HasDuplicateName(session.members))
       => StoreHoldsExactly(inserted)
  /\ (ret.op = "insert_rating" /\ HasDuplicateName(ret.arg[2]))
       => (ret.raised = "SQLAlchemyError" /\ StoreHoldsExactly(inserted))

\* an insert_rating with a duplicate name has raised after sending rows
C5_Witness ==
  /\ ret.op = "insert_rating"
  /\ HasDuplicateName(ret.arg[2])
  /\ ret.raised = "SQLAlchemyError"

\* C6: every snapshot an insert_rating appended is still stored, with the
\* timestamp, total rating and member ratings it was appended with, after
\* any later appends and lookups.
C6_AppendOnly ==
  /\ Len(clan_ratings) >= Len(inserted)
  /\ \A i \in 1..Len(inserted) :
       /\ Instant(clan_ratings[i]) = inserted[i].timestamp
       /\ clan_ratings[i].total_rating = inserted[i].total_rating
       /\ StoredMembers(clan_ratings[i]) = inserted[i].members

\* a lookup after a second append: the first snapshot has members
C6_Witness ==
  /\ Len(inserted) >= 2
  /\ inserted[1].members # <<>>
  /\ ret.op \in Readers

\* C7: a step of get_last_rating or get_rating_at_time leaves both tables
\* unchanged, and a step that changes a table is a step of insert_rating.
C7_ReadsDoNotMutate ==
  [][/\ ret'.op \in Readers => store_vars' = store_vars
     /\ store_vars' # store_vars => ret'.op = "insert_rating"]_vars

\* a lookup that found nothing in a store that is not empty
C7_Witness ==
  /\ ret.op = "get_rating_at_time"
  /\ ret.value = NotFound
  /\ clan_ratings # <<>>

\* C8: the timestamps of the stored snapshots are non-decreasing in the order
\* of insertion.
C8_TimestampsNonDecreasing ==
  \A i, j \in 1..Len(clan_ratings) :
     i < j => Instant(clan_ratings[i]) <= Instant(clan_ratings[j])

\* two snapshots stamped in different seconds
C8_Witness ==
  /\ Len(clan_ratings) >= 2
  /\ Instant(clan_ratings[1]) < Instant(clan_ratings[2])

NamesOf(list) == {list[i][1] : i \in 1..Len(list)}

\* the rating a list gives a name (of its last pair with that name)
RatingIn(list, name) ==
  LET at == {i \in 1..Len(list) : list[i][1] = name}
  IN list[CHOOSE i \in at : \A j \in at : j <= i][2]

\* the index of the first pair of a list with that name
FirstIn(list, name) ==
  CHOOSE i \in 1..Len(list) :
     list[i][1] = name /\ \A j \in 1..(i - 1) : list[j][1] # name

\* the change the contract gives a member of new
ChangeOf(old, new, name) ==
  IF name \in NamesOf(old)
    THEN RatingIn(new, name) - RatingIn(old, name)
    ELSE RatingIn(new, name)

EntriesOf(entries, name) == {i \in 1..Len(entries) : entries[i][1] = name}

\* every name of new has the entry (name, new_rating, change) iff its change
\* is not 0, and no entry when it is 0
PresentEntriesRight(old, new, entries) ==
  \A name \in NamesOf(new) :
     LET change == ChangeOf(old, new, name)
         entry == <<name, RatingIn(new, name), change>>
     IN /\ change # 0 <=> (\E i \in 1..Len(entries) : entries[i] = entry)
        /\ change = 0 => EntriesOf(entries, name) = {}

LeaverEntriesRight(old, new, entries) ==
  LET gone == NamesOf(old) \ NamesOf(new)
  IN /\ \A name \in gone :
          /\ Cardinality(EntriesOf(entries, name)) = 1
          /\ \A i \in EntriesOf(entries, name) :
               entries[i] = <<name, RatingIn(old, name), -RatingIn(old, name)>>
     /\ \A a, b \in gone :
          FirstIn(old, a) < FirstIn(old, b) =>
            \A i \in EntriesOf(entries, a) :
               \A j \in EntriesOf(entries, b) : i < j

C11_PresentBeforeLeavers ==
  ret.op = "get_member_delta" =>
    \A i, j \in 1..Len(ret.value) :
       LET a == ret.value[i]
           b == ret.value[j]
       IN /\ (a[1] \in NamesOf(new_members) /\ b[1] \notin NamesOf(new_members))
               => i < j
          /\ (i < j /\ a[1] \in NamesOf(new_members)
                    /\ b[1] \in NamesOf(new_members))
               => a[2] >= b[2]

\* new lists the lower rated member first; the result holds both members of
\* new, the higher rated first, and then a leaver
C11_Witness ==
  /\ ret.op = "get_member_delta"
  /\ Len(new_members) = 2
  /\ new_members[1][2] < new_members[2][2]
  /\ Len(ret.value) = 3
  /\ ret.value[1][1] = new_members[2][1]
  /\ ret.value[2][1] = new_members[1][1]
  /\ ret.value[3][1] \notin NamesOf(new_members)

\* the two lists share no name and hold no rating 0
DisjointNonZero(old, new) ==
  /\ NamesOf(old) \cap NamesOf(new) = {}
  /\ \A i \in 1..Len(old) : old[i][2] # 0
  /\ \A i \in 1..Len(new) : new[i][2] # 0

SameRatings(old, new) ==
  /\ NamesOf(old) = NamesOf(new)
  /\ \A name \in NamesOf(old) : RatingIn(old, name) = RatingIn(new, name)

\* C15: get_member_delta(m, m) is empty for every list m without a name
\* twice, and the result is empty whenever the two lists, without a name
\* twice, hold the same names with the same ratings, in whatever order.
C15_NoChangeNoEntries ==
  (/\ ret.op = "get_member_delta"
   /\ ~HasDuplicateName(old_members)
   /\ ~HasDuplicateName(new_members))
    => /\ old_members = new_members => ret.value = <<>>
       /\ SameRatings(old_members, new_members) => ret.value = <<>>

\* the same two members, neither rated 0, listed in opposite orders
C15_Witness ==
  /\ ret.op = "get_member_delta"
  /\ Len(old_members) = 2
  /\ ~HasDuplicateName(old_members)
  /\ new_members = <<old_members[2], old_members[1]>>
  /\ \A i \in 1..2 : old_members[i][2] # 0
  /\ ret.value = <<>>

\* every entry is (name, rating, change) computed by plain integer
\* arithmetic: from new for a name of new, from old for a leaver
EntriesArithmetic(old, new, entries) ==
  \A i \in 1..Len(entries) :
     LET e == entries[i]
     IN /\ Len(e) = 3
        /\ e[1] \in NamesOf(old) \cup NamesOf(new)
        /\ IF e[1] \in NamesOf(new)
             THEN /\ e[2] = RatingIn(new, e[1])
                  /\ e[3] = ChangeOf(old, new, e[1])
             ELSE /\ e[2] = RatingIn(old, e[1])
                  /\ e[3] = 0 - e[2]

\* with both lists non-empty no member is left out for a negative rating
NegativesKept(old, new, entries) ==
  (old # <<>> /\ new # <<>>) =>
    /\ \A name \in NamesOf(new) :
          (RatingIn(new, name) < 0 /\ ChangeOf(old, new, name) # 0)
             => EntriesOf(entries, name) # {}
    /\ \A name \in NamesOf(old) \ NamesOf(new) :
          RatingIn(old, name) < 0 => EntriesOf(entries, name) # {}

\* C16: a call of get_member_delta, on any pair of lists, ratings negative
\* or 0 included, returns a list of entries without raising and leaves both
\* tables as they were; negative ratings enter the change by plain
\* arithmetic, neither rejected nor clamped.
C16_TotalAndPure ==
  [][ret'.op = "get_member_delta" =>
       /\ ret'.raised = NoError
       /\ store_vars' = store_vars
       /\ ret'.arg = <<old_members, new_members>>
       /\ EntriesArithmetic(old_members, new_members, ret'.value)
       /\ NegativesKept(old_members, new_members, ret'.value)]_vars

\* a member went from 1 to -1 (change -2) and a member rated -1 left
\* (change +1)
C16_Witness ==
  /\ ret.op = "get_member_delta"
  /\ \E i, j \in 1..Len(ret.value) :
       /\ ret.value[i][1] \in NamesOf(new_members)
       /\ ret.value[i][2] = -1
       /\ ret.value[i][3] = -2
       /\ ret.value[j][1] \notin NamesOf(new_members)
       /\ ret.value[j][2] = -1
       /\ ret.value[j][3] = 1

\* the snapshot a cycle fetched is stored, stamped with the second the
\* cycle ran in
CycleSnapshotStored(c) ==
  \E i \in 1..Len(clan_ratings) :
     /\ Instant(clan_ratings[i]) = replace_microsecond_0(c.ran[1])
     /\ clan_ratings[i].total_rating = c.new[1][1]
     /\ StoredMembers(clan_ratings[i]) = c.new[1][2]

\* the cycle handed no delta report to channel.send
NoReportSent(c) == \A i \in 1..Len(c.sends) : c.sends[i] # "report"

\* C17 as the spec states it: a cycle that found no baseline and fetched
\* successfully has stored the fetched snapshot and sends no delta report.
C17_FirstRunStores ==
  \A l \in DOMAIN loops :
     (loops[l].fetch = "ok" /\ loops[l].old = NotFound)
       => CycleSnapshotStored(loops[l]) /\ NoReportSent(loops[l])

\* C17, amended: a cycle that found no baseline, fetched successfully and
\* whose insert_rating did not raise has stored the fetched snapshot and
\* sends the clean-start message and no delta report; when insert_rating
\* raised, the cycle sends the storage-error message and no delta report.
C17_FirstRunStoresUnlessInsertFails ==
  \A l \in DOMAIN loops :
     LET c == loops[l]
     IN (c.fetch = "ok" /\ c.old = NotFound) =>
          /\ NoReportSent(c)
          /\ c.delta = None
          /\ c.insert \in {"ok", "raised"}
          /\ c.insert = "ok" =>
                /\ CycleSnapshotStored(c)
                /\ c.sends \in {<<"clean_start">>,
                                <<"clean_start", "rating_error">>}
          /\ c.insert = "raised" =>
                c.sends \in {<<"store_error">>,
                             <<"store_error", "rating_error">>}

\* the daily loop has finished a first run on a store without a baseline:
\* the snapshot is stored and the clean-start message was sent
C17_Witness ==
  /\ loops["daily_report"].pc = "idle"
  /\ loops["daily_report"].old = NotFound
  /\ loops["daily_report"].insert = "ok"
  /\ loops["daily_report"].sends = <<"clean_start">>
  /\ CycleSnapshotStored(loops["daily_report"])

\* C18: while a cycle that has read its baseline has not finished (it waits
\* in the send of its message), no other cycle performs a fetch or an
\* append.
C18_OneCycleAtATime ==
  [][\A l, m \in DOMAIN loops :
       (l # m /\ loops[l].pc = "sending")
         => ~(/\ loops[m].pc = "idle"
              /\ loops'[m] # loops[m]
              /\ loops'[m].fetch # "none")]_vars

\* C19: a command whose baseline lookup returned (None, None, None) replies
\* with the no-data message and stops: it fetches nothing, computes no
\* delta and sends no report.
C19_NoBaselineNoFetch ==
  command.old = Some(NotFound) =>
    /\ command.name \in {"today_command", "compare_command"}
    /\ command.fetch = "none"
    /\ command.delta = None
    /\ command.sends \in {<<"no_data">>, <<"no_data", "error">>}

\* compare_command found nothing at or before its target although the
\* store holds a snapshot, and has returned after the no-data reply
C19_Witness ==
  /\ command.name = "compare_command"
  /\ command.old = Some(NotFound)
  /\ command.pc = "idle"
  /\ command.sends = <<"no_data">>
  /\ clan_ratings # <<>>

\* C20: no step of today_command or compare_command changes a table,
\* whichever path the command takes, a path that fetches included.
C20_CommandsDoNotStore ==
  [][command' # command => store_vars' = store_vars]_vars

\* a command has fetched fresh ratings and replied with a report, and the
\* store holds the one snapshot it held before
C20_Witness ==
  /\ command.pc = "idle"
  /\ command.fetch = "ok"
  /\ command.sends = <<"report">>
  /\ Len(clan_ratings) = 1

\* a run of the hourly loop that found a baseline, fetched, stored and
\* computed a delta that is not empty
HourlyChange(c) ==
  /\ c.ran # None
  /\ ~no_old_data(c.old)
  /\ c.fetch = "ok"
  /\ c.insert = "ok"
  /\ c.delta # None
  /\ c.delta # Some(<<>>)

\* C21: every run of hourly_report that found a previous snapshot, fetched
\* and stored successfully and got a delta that is not empty hands a change
\* report to channel.send.
C21_HourlyReportSent ==
  HourlyChange(loops["hourly_report"]) =>
    \E i \in 1..Len(loops["hourly_report"].sends) :
       loops["hourly_report"].sends[i] = "report"

\* C22: whenever today_command or daily_report looks up its baseline, the
\* start-of-day instant it passes to get_rating_at_time is not later than
\* the current time.
C22_StartOfDayNotLater ==
  [][(\/ /\ command.name = "today_command"
         /\ command.pc = "deferring"
         /\ command'.old # None
      \/ /\ loops["daily_report"].pc = "idle"
         /\ loops'["daily_report"] # loops["daily_report"])
       => start_of_day(clock) <= clock]_vars

\* the date a compare_command in flight was given lies in the past and was
\* written with its year, DD.MM.YYYY
FullPastDate(k) ==
  /\ k.name = "compare_command"
  /\ k.pc = "deferring"
  /\ Len(k.date) = 4
  /\ target_datetime(SubSeq(k.date, 1, 3), k.time, clock) # None
  /\ target_datetime(SubSeq(k.date, 1, 3), k.time, clock)[1] <= clock

\* C23: compare_command given a valid past date as DD.MM.YYYY and a valid
\* time looks up the snapshot at or before that instant and does not answer
\* with the invalid-format message.
C23_FullDateParsed ==
  [][(FullPastDate(command) /\ command'.sends # <<"error">>)
       => /\ command'.sends # <<"invalid_format">>
          /\ command'.old # None]_vars

\* C24: for every retries argument and every sequence of request outcomes
\* a finished call of get_ratings has returned a (total_rating, members)
\* tuple or raised ScraperError.
C24_ResultOrScraperError ==
  /\ scrape.pc = "returned" => (scrape.value # None /\ Len(scrape.value[1]) = 2)
  /\ scrape.pc = "raised" => scrape.raised = "ScraperError"

\* what holds of a call of get_ratings with retries >= 1 at every moment
AttemptsInOrder(call) ==
  LET o == call.outcomes
      n == call.retries
      made == Len(o)
      last == o[made]
      done == call.pc \in {"returned", "raised"}
  IN n >= 1 =>
       /\ made <= n
       /\ \A i \in 1..(made - 1) : o[i] \in RequestFailures
       /\ call.pc = "returned" =>
            (made >= 1 /\ last = "parsed" /\ call.value # None)
       /\ call.pc = "raised" => call.raised = "ScraperError"
       /\ made >= 1 =>
            /\ last = "parsed" => call.pc = "returned"
            /\ last \in {"parse raised", "unexpected"} => call.pc = "raised"
            /\ (last \in RequestFailures /\ made = n) => call.pc = "raised"
            /\ (last \in RequestFailures /\ made < n) => ~done
       /\ call.pc = "loop" => call.slept = RETRY_DELAY * made
       /\ (call.pc = "sleeping" \/ done) =>
            call.slept = RETRY_DELAY * (made - 1)

\* C29: a call of get_ratings with retries = n >= 1 makes at most n HTTP
\* attempts and ends; it returns on the first attempt that succeeds, makes
\* a further attempt only after a RequestException and after one sleep of
\* RETRY_DELAY, does not sleep after the last attempt, raises ScraperError
\* after the n-th request failure, and raises ScraperError at once when the
\* parse or anything else fails.
C29_BoundedRetries ==
  /\ [](scrape.pc # "idle" => AttemptsInOrder(scrape))
  /\ (scrape.pc = "loop" /\ scrape.retries >= 1)
       ~> (scrape.pc \in {"returned", "raised"})

\* the default three attempts all failed at the request: ScraperError
\* after two sleeps
C29_Witness ==
  /\ scrape.pc = "raised"
  /\ scrape.retries = MAX_RETRIES
  /\ Len(scrape.outcomes) = MAX_RETRIES
  /\ scrape.slept = RETRY_DELAY * (MAX_RETRIES - 1)
  /\ scrape.outcomes[MAX_RETRIES] \in RequestFailures

\* this step is a run of loop l, from its baseline read to its first await
\* or its return
RunOf(l) == loops[l].pc = "idle" /\ loops'[l] # loops[l]

\* the baseline a run got is not-found or a snapshot stored before the run
BaselineFromBefore(old) ==
  \/ old = NotFound
  \/ \E c \in Range(clan_ratings) : Returns(old, c)

\* the run appended one snapshot, the one it fetched, stamped with its second
OneSnapshotAppended(c) ==
  /\ Len(clan_ratings') = Len(clan_ratings) + 1
  /\ SubSeq(clan_ratings', 1, Len(clan_ratings)) = clan_ratings
  /\ LET row == clan_ratings'[Len(clan_ratings')]
         mine == SubSeq(member_ratings', Len(member_ratings) + 1,
                        Len(member_ratings'))
     IN /\ result_datetime(row.timestamp) = replace_microsecond_0(clock)
        /\ row.total_rating = c.new[1][1]
        /\ Len(mine) = Len(c.new[1][2])
        /\ \A k \in 1..Len(mine) :
             /\ mine[k].clan_rating_id = row.id
             /\ <<mine[k].member_name, mine[k].rating>> = c.new[1][2][k]

\* what the run did after the append: the delta of the baseline and the
\* fetched members when there is a baseline, and a report only with it
DeltaAfterAppend(c) ==
  /\ c.delta # None =>
       c.delta = Some(get_member_delta(list_or_empty(c.old[3]), c.new[1][2]))
  /\ (\E i \in 1..Len(c.sends) : c.sends[i] = "report") => c.delta # None

\* C25 as the spec states it: every run whose channel exists and whose
\* fetch succeeds appends exactly one snapshot, reads its baseline from the
\* store as it was before that append, and computes the delta and sends
\* only with the snapshot appended.
C25_CycleOrder ==
  [][\A l \in DOMAIN loops :
       (RunOf(l) /\ loops'[l].fetch = "ok")
         => /\ OneSnapshotAppended(loops'[l])
            /\ BaselineFromBefore(loops'[l].old)
            /\ DeltaAfterAppend(loops'[l])]_vars

\* C25, amended: every run whose channel exists, whose fetch succeeds and
\* whose insert_rating does not raise appends exactly one snapshot, the
\* fetched one; its baseline is a snapshot of the store as it was before
\* the append (or not-found); the delta is that of the baseline and the
\* fetched members, also when it is empty or the report is silenced. When
\* insert_rating raises, the run appends nothing and computes no delta.
C25_CycleOrderUnlessInsertFails ==
  [][\A l \in DOMAIN loops :
       (RunOf(l) /\ loops'[l].fetch = "ok")
         => /\ BaselineFromBefore(loops'[l].old)
            /\ DeltaAfterAppend(loops'[l])
            /\ loops'[l].insert = "ok" =>
                  /\ OneSnapshotAppended(loops'[l])
                  /\ ~no_old_data(loops'[l].old) => loops'[l].delta # None
            /\ loops'[l].insert # "ok" =>
                  /\ store_vars' = store_vars
                  /\ loops'[l].delta = None]_vars

\* a silenced hourly run with a change: two snapshots stored, the delta
\* computed against the first, nothing sent
C25_Witness ==
  /\ HourlyChange(loops["hourly_report"])
  /\ loops["hourly_report"].sends = <<>>
  /\ Len(clan_ratings) = 2
  /\ Returns(loops["hourly_report"].old, clan_ratings[1])
  /\ CycleSnapshotStored(loops["hourly_report"])

\* C28: a run whose insert_rating raised leaves both tables as they were,
\* hands the storage-error message to channel.send and then returns: it
\* computes no delta, sends no report and makes no second attempt to store
\* (no later step of the cycle changes a table).
C28_InsertFailureSurfaced ==
  [][\A l \in DOMAIN loops :
       (loops'[l].insert = "raised" /\ loops'[l] # loops[l])
         => /\ store_vars' = store_vars
            /\ inserted' = inserted
            /\ loops'[l].delta = None
            /\ RunOf(l) => loops'[l].sends = <<"store_error">>
            /\ ~RunOf(l) =>
                 /\ loops[l].insert = "raised"
                 /\ loops'[l].sends \in {<<"store_error">>,
                                         <<"store_error", "rating_error">>}]_vars

\* the store held a snapshot, a later run failed to store, its error
\* message was sent and the store still holds that one snapshot
C28_Witness ==
  /\ \E l \in DOMAIN loops :
       /\ loops[l].pc = "idle"
       /\ loops[l].insert = "raised"
       /\ loops[l].sends = <<"store_error">>
       /\ ~no_old_data(loops[l].old)
  /\ Len(clan_ratings) = 1
  /\ StoreHoldsExactly(inserted)

\* C26: the names, ratings and differences generate_report shows are those
\* of the first min(50, n) entries of get_member_delta(old, new), in the
\* same order: members of new by descending new rating first, leavers
\* after them, and a cut removes entries from the end only.
C26_ReportShowsFirstEntries ==
  (ret.op = "generate_report" /\ ret.value # None) =>
    LET delta == get_member_delta(old_members, new_members)
        embed == ret.value[1]
        shown == IF Len(delta) < 50 THEN Len(delta) ELSE 50
    IN /\ Len(embed.names) = shown
       /\ Len(embed.ratings) = shown
       /\ Len(embed.diffs) = shown
       /\ \A i \in 1..shown :
            /\ embed.names[i] = delta[i][1]
            /\ embed.ratings[i] = delta[i][2]
            /\ embed.diffs[i][3] = delta[i][3]
       /\ \A i, j \in 1..shown :
            (i < j /\ embed.names[j] \in NamesOf(new_members))
              => /\ embed.names[i] \in NamesOf(new_members)
                 /\ embed.ratings[i] >= embed.ratings[j]

\* the delta has more than 50 entries, leavers among them: the report shows
\* 50, all of them members of new, and the entries cut are the last ones
C26_Witness ==
  /\ ret.op = "generate_report"
  /\ ret.value # None
  /\ Len(get_member_delta(old_members, new_members)) > 50
  /\ NamesOf(old_members) \ NamesOf(new_members) # {}
  /\ Len(ret.value[1].names) = 50
  /\ ret.value[1].names[1] = new_members[1][1]

\* C27: two members of new with equal new ratings that both have an entry
\* come in the result in the order in which the new list names them.
C27_StableTieBreak ==
  ret.op = "get_member_delta" =>
    \A i, j \in 1..Len(ret.value) :
       (/\ i < j
        /\ ret.value[i][1] \in NamesOf(new_members)
        /\ ret.value[j][1] \in NamesOf(new_members)
        /\ ret.value[i][2] = ret.value[j][2])
         => FirstIn(new_members, ret.value[i][1])
              < FirstIn(new_members, ret.value[j][1])

\* new lists bob before amy with the same rating, and both have entries
C27_Witness ==
  /\ ret.op = "get_member_delta"
  /\ Len(new_members) = 2
  /\ new_members[1][1] = "bob"
  /\ new_members[2][1] = "amy"
  /\ new_members[1][2] = new_members[2][2]
  /\ Len(ret.value) >= 2
  /\ ret.value[1][1] = "bob"
  /\ ret.value[2][1] = "amy"

ReportSent(run) == \E i \in 1..Len(run.sends) : run.sends[i] = "report"

\* C30: a cycle or a command has handed a delta report to send only when
\* get_member_delta of the baseline members and the fetched members is not
\* empty; a cycle that stored its snapshot and found an empty delta has sent
\* nothing, and the snapshot it fetched is in the store.
C30_ReportOnlyOnDelta ==
  /\ \A l \in DOMAIN loops :
       ReportSent(loops[l]) =>
         /\ loops[l].fetch = "ok"
         /\ ~no_old_data(loops[l].old)
         /\ loops[l].delta =
              Some(get_member_delta(list_or_empty(loops[l].old[3]),
                                    loops[l].new[1][2]))
         /\ loops[l].delta # Some(<<>>)
  /\ ReportSent(command) =>
       /\ command.name \in {"today_command", "compare_command"}
       /\ command.old # None
       /\ ~no_baseline(command.old[1])
       /\ command.fetch = "ok"
       /\ command.delta # None
       /\ command.delta # Some(<<>>)
  /\ \A l \in DOMAIN loops :
       (loops[l].insert = "ok" /\ loops[l].delta = Some(<<>>)) =>
         /\ loops[l].sends = <<>>
         /\ CycleSnapshotStored(loops[l])

\* a command has sent a report while the daily cycle, whose fetched members
\* equal its baseline's, stored its snapshot and sent nothing
C30_Witness ==
  /\ ReportSent(command)
  /\ loops["daily_report"].insert = "ok"
  /\ loops["daily_report"].delta = Some(<<>>)
  /\ loops["daily_report"].sends = <<>>
  /\ CycleSnapshotStored(loops["daily_report"])

\* C33: when both lists are non-empty, every name of old that new does not
\* have and whose old rating is 0 has the entry (name, 0, 0); and an entry
\* of the result with change 0 is always such a leaver, never a member of
\* new.
C33_ZeroLeaverKept ==
  ret.op = "get_member_delta" =>
    /\ (old_members # <<>> /\ new_members # <<>>) =>
         \A name \in NamesOf(old_members) \ NamesOf(new_members) :
            RatingIn(old_members, name) = 0 =>
              \E i \in 1..Len(ret.value) : ret.value[i] = <<name, 0, 0>>
    /\ \A i \in 1..Len(ret.value) :
         ret.value[i][3] = 0 =>
           /\ ret.value[i][1] \notin NamesOf(new_members)
           /\ ret.value[i][1] \in NamesOf(old_members)
           /\ RatingIn(old_members, ret.value[i][1]) = 0
           /\ ret.value[i][2] = 0

\* amy left with an old rating of 0 while bob, who stays, did not change:
\* the result is the one entry of amy, with change 0
C33_Witness ==
  /\ ret.op = "get_member_delta"
  /\ "amy" \in NamesOf(old_members) \ NamesOf(new_members)
  /\ RatingIn(old_members, "amy") = 0
  /\ "bob" \in NamesOf(old_members) \cap NamesOf(new_members)
  /\ RatingIn(old_members, "bob") = RatingIn(new_members, "bob")
  /\ ret.value = <<<<"amy", 0, 0>>>>

\* C34: a run of either loop that finds no channel returns before fetching:
\* it makes no fetch, appends nothing to either table, hands nothing to
\* send and is finished at once; and every step that changes the store is
\* a run that found its channel.
C34_NoChannelNoIngestion ==
  [][/\ \A l \in DOMAIN loops :
          (RunOf(l) /\ loops'[l].channel = "missing")
            => /\ store_vars' = store_vars
               /\ inserted' = inserted
               /\ loops'[l].fetch = "none"
               /\ loops'[l].new = None
               /\ loops'[l].insert = "none"
               /\ loops'[l].delta = None
               /\ loops'[l].sends = <<>>
               /\ loops'[l].pc = "idle"
     /\ store_vars' # store_vars
          => \E l \in DOMAIN loops :
                RunOf(l) /\ loops'[l].channel = "found"]_vars

\* the hourly tick of this instant found no channel, and the store, empty
\* before it, is still empty
C34_Witness ==
  /\ loops["hourly_report"].channel = "missing"
  /\ loops["hourly_report"].ran = Some(clock)
  /\ loops["hourly_report"].fetch = "none"
  /\ loops["hourly_report"].pc = "idle"
  /\ clan_ratings = <<>>
  /\ member_ratings = <<>>

FetchFailed(l) == loops[l].fetch = "raised"

\* the cycle of loop l whose fetch failed gets back to idle, where the
\* next tick of the loop can run
FailedCycleEnds(l) == FetchFailed(l) ~> (loops[l].pc = "idle")

\* C31: a run of either loop in which get_ratings raises changes neither
\* table, records no insert and no delta, and hands the fetch-error message,
\* and never a report, to send; the cycle then ends with the loop idle
\* again, whether that send is delivered or raises, so the loop's later
\* ticks run.
C31_FetchFailureHandled ==
  /\ [][\A l \in DOMAIN loops :
          (RunOf(l) /\ FetchFailed(l)')
            => /\ store_vars' = store_vars
               /\ inserted' = inserted
               /\ loops'[l].new = None
               /\ loops'[l].insert = "none"
               /\ loops'[l].delta = None]_vars
  /\ [](\A l \in DOMAIN loops :
          FetchFailed(l) => /\ loops[l].sends = <<"rating_error">>
                            /\ loops[l].pc \in {"sending", "idle"})
  /\ FailedCycleEnds("hourly_report")
  /\ FailedCycleEnds("daily_report")

\* the fetch of the first hourly tick failed: the error message was handed
\* to send, the store is still empty and the loop is idle again
C31_Witness ==
  /\ FetchFailed("hourly_report")
  /\ loops["hourly_report"].sends = <<"rating_error">>
  /\ loops["hourly_report"].pc = "idle"
  /\ clan_ratings = <<>>
  /\ member_ratings = <<>>

====
